---- MODULE Spec2Model ----
(***************************************************************************)
(* The user resource of the REST API: the users table behind the Sequelize *)
(* model, and the five routed handlers of controllers/userController.js.   *)
(* Every handler is an asynchronous task that suspends at each awaited     *)
(* store call; one action of the model is the code a task runs between two *)
(* suspensions, so concurrent requests interleave at the store calls.      *)
(***************************************************************************)
EXTENDS Integers, Sequences, FiniteSets, TLC

VARIABLES users,   \* the users table, in insertion order; row i has id i
          now,     \* the store's clock, read by NOW and new Date()
          req      \* the request task of each slot: handler, position, locals, response

vars == <<users, now, req>>

----------------------------------------------------------------------------
(* Bounds and input domains *)

MaxId == 2
MaxTime == 4

Slots == {"r1", "r2"}
Ids == 1..MaxId
Emails == {"a@x.io", "b@x.io"}
Passwords == {"Passw0rd!"}

(* deleted_at allows NULL: the time that is no time *)
NoTime == 0

(* req.body of POST /users as sent: role is optional *)
CreateBodies ==
    {[name |-> "Ann", email |-> e, password |-> p] :
        e \in Emails, p \in Passwords}
    \cup
    {[name |-> "Ann", email |-> e, password |-> p, role |-> "admin"] :
        e \in Emails, p \in Passwords}

(* req.body of PUT /users/:id as sent: any non-empty choice of fields *)
UpdateBodies ==
    {[name |-> "Bob"]}
    \cup {[email |-> e] : e \in Emails}
    \cup {[isActive |-> FALSE]}

----------------------------------------------------------------------------
(* Response envelope *)

NoBody == [x \in {} |-> 0]

Envelope(status, message, kind, data) ==
    [status |-> status, success |-> (status >= 200 /\ status < 300),
     message |-> message, kind |-> kind, data |-> data,
     meta |-> NoBody, errors |-> <<>>]

sendSuccessResponse(message, kind, data) == Envelope(200, message, kind, data)
sendCreatedResponse(message, kind, data) == Envelope(201, message, kind, data)
sendBadRequestResponse(message) == Envelope(400, message, "null", NoBody)
sendNotFoundResponse(message) == Envelope(404, message, "null", NoBody)
sendServerErrorResponse(message) == Envelope(500, message, "null", NoBody)

(* the optional meta argument of sendSuccessResponse *)
WithMeta(response, meta) == [response EXCEPT !.meta = meta]

(* 422 with the list of the failed fields *)
sendValidationErrorResponse(message, errors) ==
    [Envelope(422, message, "null", NoBody) EXCEPT !.errors = errors]

NoResponse == Envelope(0, "", "null", NoBody)

----------------------------------------------------------------------------
(* Text: the characters of the strings that requests and rows carry *)

Chars ==
    ("Ann" :> <<"A", "n", "n">>) @@ ("Bob" :> <<"B", "o", "b">>)
    @@ ("a@x.io" :> <<"a", "@", "x", ".", "i", "o">>)
    @@ ("b@x.io" :> <<"b", "@", "x", ".", "i", "o">>)
    @@ ("A" :> <<"A">>) @@ ("b@" :> <<"b", "@">>) @@ ("_" :> <<"_">>)
    @@ ("z" :> <<"z">>) @@ ("x" :> <<"x">>) @@ ("bad" :> <<"b", "a", "d">>)
    @@ ("0" :> <<"0">>) @@ ("1" :> <<"1">>) @@ ("2" :> <<"2">>)
    @@ ("3" :> <<"3">>) @@ ("4" :> <<"4">>) @@ ("1a" :> <<"1", "a">>)
    @@ ("100" :> <<"1", "0", "0">>) @@ ("101" :> <<"1", "0", "1">>)
    @@ ("error" :> <<"e", "r", "r", "o", "r">>)
    @@ ("-1" :> <<"-", "1">>) @@ ("5" :> <<"5">>) @@ ("10" :> <<"1", "0">>)
    @@ ("1000" :> <<"1", "0", "0", "0">>) @@ ("1001" :> <<"1", "0", "0", "1">>)
    @@ ("abc" :> <<"a", "b", "c">>)
    @@ ("Passw0rd!" :> <<"P", "a", "s", "s", "w", "0", "r", "d", "!">>)
    @@ ("user" :> <<"u", "s", "e", "r">>)
    @@ ("admin" :> <<"a", "d", "m", "i", "n">>)

(* String.prototype.toLowerCase, character by character *)
LowerChar(c) == CASE c = "A" -> "a" [] c = "B" -> "b" [] OTHER -> c

toLowerCase(chars) == [k \in 1..Len(chars) |-> LowerChar(chars[k])]

(* the comparison of two characters under the collation of the text columns:
   the letters of both cases are equal *)
SameUnderCollation(a, b) == LowerChar(a) = LowerChar(b)

(* text LIKE pattern: % stands for any run of characters, _ for any one *)
RECURSIVE Like(_, _)
Like(text, pattern) ==
    IF pattern = <<>> THEN text = <<>>
    ELSE IF Head(pattern) = "%"
    THEN Like(text, Tail(pattern)) \/ (text # <<>> /\ Like(Tail(text), pattern))
    ELSE /\ text # <<>>
         /\ Head(pattern) = "_" \/ SameUnderCollation(Head(text), Head(pattern))
         /\ Like(Tail(text), Tail(pattern))

----------------------------------------------------------------------------
(* The store *)

Exclude(row, fields) == [f \in (DOMAIN row) \ fields |-> row[f]]

(* where: { is_deleted: false } *)
NotDeleted(row) == row.is_deleted = FALSE

(* where: { id }, without the deletion flag *)
FindByIdIgnoringDeletion(id) ==
    IF id \in 1..Len(users) THEN <<users[id]>> ELSE <<>>

(* User.findOne({ where: { id, is_deleted: false } }): <<>> is null *)
FindLiveById(id) ==
    IF id \in 1..Len(users) /\ NotDeleted(users[id]) THEN <<users[id]>> ELSE <<>>

(* the existence check left out *)
LiveWithEmailUnchecked(email) == {}

(* where: { email, is_deleted: false } *)
LiveWithEmail(email) ==
    {i \in 1..Len(users) : users[i].email = email /\ NotDeleted(users[i])}

(* a table without the unique index *)
NoUniqueIndex(email, exceptId) == FALSE

(* the unique index on users.email covers every row of the table *)
UniqueViolation(email, exceptId) ==
    \E i \in 1..Len(users) : i # exceptId /\ users[i].email = email

(* the model's password hook *)
Hash(password) == <<"hash", password>>

(* toSafeJSON of a model instance *)
toSafeJSON(row) == Exclude(row, {"password"})

NewRow(body) ==
    [id |-> Len(users) + 1,
     name |-> body.name,
     email |-> body.email,
     password |-> Hash(body.password),
     role |-> body.role,
     is_active |-> TRUE,
     is_deleted |-> FALSE,
     deleted_at |-> NoTime,
     created_at |-> now,
     updated_at |-> now]

----------------------------------------------------------------------------
(* Request tasks *)

Idle ==
    [op |-> "none", pc |-> "idle", id |-> 0, body |-> NoBody,
     user |-> <<>>, raced |-> FALSE, res |-> NoResponse]

Task(op, pc, id, body) ==
    [op |-> op, pc |-> pc, id |-> id, body |-> body,
     user |-> <<>>, raced |-> FALSE, res |-> NoResponse]

Free(s) == req[s].pc \in {"idle", "done"}

(* res.status(..).json(..) ends the task: the request and its response stay on record *)
Finish(s, response) ==
    req' = [req EXCEPT ![s] = [Idle EXCEPT !.op = req[s].op, !.pc = "done",
                                           !.raced = req[s].raced, !.id = req[s].id,
                                           !.res = response]]

(* validateBody(createUserSchema): role defaults to 'user' *)
CreateDefaults(body) ==
    IF "role" \in DOMAIN body THEN body
    ELSE [f \in (DOMAIN body) \cup {"role"} |->
            IF f = "role" THEN "user" ELSE body[f]]

ReceiveCreate(s) ==
    /\ Free(s)
    /\ \E body \in CreateBodies :
          req' = [req EXCEPT ![s] = Task("createUser", "findOne", 0, CreateDefaults(body))]
    /\ UNCHANGED <<users, now>>

(* The tasks that have passed the existence check for the email of s and have
   not inserted yet, at a moment when no row of the table holds that email *)
Rivals(s) ==
    {t \in Slots \ {s} :
        /\ req[t].op = "createUser" /\ req[t].pc = "create"
        /\ req[t].body.email = req[s].body.email
        /\ ~ UniqueViolation(req[s].body.email, 0)}

(* createUser up to the await of User.create *)
CreateFindOne(s) ==
    /\ req[s].op = "createUser" /\ req[s].pc = "findOne"
    /\ IF LiveWithEmail(req[s].body.email) # {}
       THEN Finish(s, sendBadRequestResponse("User with this email already exists"))
       ELSE req' = [t \in Slots |->
                IF t = s
                THEN [req[s] EXCEPT !.pc = "create", !.raced = Rivals(s) # {}]
                ELSE [req[t] EXCEPT !.raced = @ \/ t \in Rivals(s)]]
    /\ UNCHANGED <<users, now>>

(* a catch block without the unique-constraint branch *)
CreateCatchAllAsServerError(errorName) ==
    sendServerErrorResponse("Failed to create user")

(* the catch block of createUser *)
CreateCatch(errorName) ==
    IF errorName = "SequelizeUniqueConstraintError"
    THEN sendBadRequestResponse("Email already exists")
    ELSE sendServerErrorResponse("Failed to create user")

(* createUser from User.create to the response *)
CreateInsert(s) ==
    /\ req[s].op = "createUser" /\ req[s].pc = "create"
    /\ IF UniqueViolation(req[s].body.email, 0)
       THEN /\ Finish(s, CreateCatch("SequelizeUniqueConstraintError"))
            /\ UNCHANGED <<users, now>>
       ELSE /\ now < MaxTime
            /\ Len(users) < MaxId
            /\ users' = Append(users, NewRow(req[s].body))
            /\ now' = now + 1
            /\ Finish(s, sendCreatedResponse("User created successfully", "user",
                                             toSafeJSON(NewRow(req[s].body))))

----------------------------------------------------------------------------
(* GET /users *)

(* the defaults of userQuerySchema; <<>> is an absent filter *)
QueryDefaults(query) ==
    [page |-> IF "page" \in DOMAIN query THEN query.page ELSE 1,
     limit |-> IF "limit" \in DOMAIN query THEN query.limit ELSE 10,
     search |-> IF "search" \in DOMAIN query THEN <<query.search>> ELSE <<>>,
     role |-> IF "role" \in DOMAIN query THEN <<query.role>> ELSE <<>>,
     sortBy |-> IF "sortBy" \in DOMAIN query THEN query.sortBy ELSE "createdAt",
     sortOrder |-> IF "sortOrder" \in DOMAIN query THEN query.sortOrder ELSE "desc"]

(* req.query after validateQuery(userQuerySchema) *)
ListQueries ==
    {QueryDefaults([page |-> p, limit |-> l]) : p \in {1, 2}, l \in {1, 10}}

ReceiveList(s) ==
    /\ Free(s)
    /\ \E query \in ListQueries :
          req' = [req EXCEPT ![s] = Task("getUsers", "findAndCountAll", 0, query)]
    /\ UNCHANGED <<users, now>>

(* no where clause *)
ListWhereAll == 1..Len(users)

(* where: { is_deleted: false } *)
ListWhere == {i \in 1..Len(users) : NotDeleted(users[i])}

(* [Op.or]: name or email LIKE %search.toLowerCase()% *)
SearchMatches(row, search) ==
    LET pattern == <<"%">> \o toLowerCase(Chars[search]) \o <<"%">>
    IN Like(Chars[row.name], pattern) \/ Like(Chars[row.email], pattern)

(* the where conditions of getUsers *)
WhereConditions(query) ==
    {i \in ListWhere :
        /\ query.search # <<>> => SearchMatches(users[i], query.search[1])
        /\ query.role # <<>> => users[i].role = query.role[1]}

(* columnMapping[sortBy] || sortBy *)
actualSortBy(sortBy) ==
    CASE sortBy = "createdAt" -> "created_at"
      [] sortBy = "updatedAt" -> "updated_at"
      [] sortBy = "deletedAt" -> "deleted_at"
      [] OTHER -> sortBy

(* order: [[column, direction]]: rows of equal key in the order of their ids *)
RECURSIVE Order(_, _, _)
Order(S, column, direction) ==
    IF S = {} THEN <<>>
    ELSE LET first == CHOOSE i \in S : \A j \in S :
                        \/ /\ direction = "DESC"
                           /\ users[i][column] > users[j][column]
                        \/ /\ direction = "ASC"
                           /\ users[i][column] < users[j][column]
                        \/ users[i][column] = users[j][column] /\ i <= j
         IN <<first>> \o Order(S \ {first}, column, direction)

(* sortOrder.toUpperCase() *)
toUpperCase(sortOrder) == IF sortOrder = "asc" THEN "ASC" ELSE "DESC"

Min(a, b) == IF a < b THEN a ELSE b

(* a page that always starts at the first row *)
PageOfFromStart(ordered, page, limit) == SubSeq(ordered, 1, Min(limit, Len(ordered)))

(* limit and offset = (page - 1) * limit over the ordered rows *)
PageOf(ordered, page, limit) ==
    SubSeq(ordered, (page - 1) * limit + 1, Min(page * limit, Len(ordered)))

ListRows(query) ==
    LET ordered == Order(WhereConditions(query), actualSortBy(query.sortBy),
                         toUpperCase(query.sortOrder))
        ids == PageOf(ordered, query.page, query.limit)
    IN [k \in 1..Len(ids) |-> Exclude(users[ids[k]], {"password"})]

(* a division that rounds down *)
Floor(count, limit) == count \div limit

(* Math.ceil(count / limit) *)
Ceil(count, limit) == (count + limit - 1) \div limit

ListMeta(query, count) ==
    [pagination |->
        [page |-> query.page,
         limit |-> query.limit,
         total |-> count,
         pages |-> Ceil(count, query.limit),
         hasNext |-> query.page < Ceil(count, query.limit),
         hasPrev |-> query.page > 1],
     filters |->
        [search |-> query.search,
         role |-> query.role,
         sortBy |-> query.sortBy,
         sortOrder |-> query.sortOrder]]

ListFindAndCountAll(s) ==
    /\ req[s].op = "getUsers" /\ req[s].pc = "findAndCountAll"
    /\ LET query == req[s].body
           count == Cardinality(WhereConditions(query)) IN
         Finish(s, WithMeta(sendSuccessResponse("Users retrieved successfully",
                                                "list", ListRows(query)),
                            ListMeta(query, count)))
    /\ UNCHANGED <<users, now>>

----------------------------------------------------------------------------
(* GET /users/:id *)

ReceiveGet(s) ==
    /\ Free(s)
    /\ \E id \in Ids : req' = [req EXCEPT ![s] = Task("getUser", "findOne", id, NoBody)]
    /\ UNCHANGED <<users, now>>

(* every attribute, the password too *)
GetAttributesAll(row) == row

(* attributes: { exclude: ['password'] } *)
GetAttributes(row) == Exclude(row, {"password"})

(* getUser: User.findOne({ where: { id: parseInt(id), is_deleted: false } }) *)
GetFindUser(id) == FindLiveById(id)

(* a Get that stamps the row it reads *)
GetFindOneStamping(s) ==
    /\ req[s].op = "getUser" /\ req[s].pc = "findOne"
    /\ LET user == GetFindUser(req[s].id) IN
         IF user = <<>>
         THEN /\ Finish(s, sendNotFoundResponse("User not found"))
              /\ UNCHANGED <<users, now>>
         ELSE /\ Finish(s, sendSuccessResponse("User retrieved successfully", "user",
                                               GetAttributes(user[1])))
              /\ users' = [users EXCEPT ![req[s].id].updated_at = now]
              /\ now' = now

GetFindOne(s) ==
    /\ req[s].op = "getUser" /\ req[s].pc = "findOne"
    /\ LET user == GetFindUser(req[s].id) IN
         IF user = <<>>
         THEN Finish(s, sendNotFoundResponse("User not found"))
         ELSE Finish(s, sendSuccessResponse("User retrieved successfully", "user",
                                            GetAttributes(user[1])))
    /\ UNCHANGED <<users, now>>

----------------------------------------------------------------------------
(* DELETE /users/:id *)

ReceiveDelete(s) ==
    /\ Free(s)
    /\ \E id \in Ids : req' = [req EXCEPT ![s] = Task("deleteUser", "findOne", id, NoBody)]
    /\ UNCHANGED <<users, now>>

(* the admin rule left out *)
IsAdminNever(row) == FALSE

(* user.role === 'admin' *)
IsAdmin(row) == row.role = "admin"

(* a lookup that forgets is_deleted: false *)
DeleteFindUserDeletedToo(id) == FindByIdIgnoringDeletion(id)

(* deleteUser: User.findOne({ where: { id: parseInt(id), is_deleted: false } }) *)
DeleteFindUser(id) == FindLiveById(id)

(* deleteUser up to the await of user.update *)
DeleteFindOne(s) ==
    /\ req[s].op = "deleteUser" /\ req[s].pc = "findOne"
    /\ LET user == DeleteFindUser(req[s].id) IN
         IF user = <<>>
         THEN Finish(s, sendNotFoundResponse("User not found"))
         ELSE IF IsAdmin(user[1])
         THEN Finish(s, sendBadRequestResponse("Cannot delete admin users"))
         ELSE req' = [req EXCEPT ![s].pc = "update",
                                 ![s].user = <<Exclude(user[1], {"password"})>>]
    /\ UNCHANGED <<users, now>>

(* a soft delete that leaves is_active alone *)
SoftDeletedStillActive(row) ==
    [row EXCEPT !.is_deleted = TRUE, !.deleted_at = now, !.updated_at = now]

(* user.update({ is_deleted: true, deleted_at: new Date(), is_active: false }) *)
SoftDeleted(row) ==
    [row EXCEPT !.is_deleted = TRUE, !.deleted_at = now, !.is_active = FALSE,
                !.updated_at = now]

DeletedSummary(user) ==
    [deletedUser |-> [id |-> user.id, name |-> user.name, email |-> user.email]]

(* deleteUser from user.update to the response *)
DeleteWrite(s) ==
    /\ req[s].op = "deleteUser" /\ req[s].pc = "update"
    /\ now < MaxTime
    /\ users' = [users EXCEPT ![req[s].id] = SoftDeleted(@)]
    /\ now' = now + 1
    /\ Finish(s, sendSuccessResponse("User deleted successfully", "summary",
                                     DeletedSummary(req[s].user[1])))

----------------------------------------------------------------------------
(* PUT /users/:id *)

ReceiveUpdate(s) ==
    /\ Free(s)
    /\ \E id \in Ids, body \in UpdateBodies :
          req' = [req EXCEPT ![s] = Task("updateUser", "findOne", id, body)]
    /\ UNCHANGED <<users, now>>

(* updateData.email && updateData.email !== user.email *)
EmailChanges(body, user) == "email" \in DOMAIN body /\ body.email # user.email

(* a lookup that forgets is_deleted: false *)
UpdateFindUserDeletedToo(id) == FindByIdIgnoringDeletion(id)

(* updateUser: User.findOne({ where: { id: parseInt(id), is_deleted: false } }) *)
UpdateFindUser(id) == FindLiveById(id)

(* updateUser up to its second await *)
UpdateFindOne(s) ==
    /\ req[s].op = "updateUser" /\ req[s].pc = "findOne"
    /\ LET user == UpdateFindUser(req[s].id) IN
         IF user = <<>>
         THEN Finish(s, sendNotFoundResponse("User not found"))
         ELSE req' = [req EXCEPT
                 ![s].pc = IF EmailChanges(req[s].body, user[1])
                           THEN "emailExists" ELSE "update",
                 ![s].user = user]
    /\ UNCHANGED <<users, now>>

(* an update without the look-up of the new email *)
EmailExistsUnchecked(email, id) == FALSE

(* where: { email, id: { [Op.ne]: id }, is_deleted: false } *)
EmailExists(email, id) == LiveWithEmail(email) \ {id} # {}

UpdateEmailExists(s) ==
    /\ req[s].op = "updateUser" /\ req[s].pc = "emailExists"
    /\ IF EmailExists(req[s].body.email, req[s].id)
       THEN Finish(s, sendBadRequestResponse("Email already exists"))
       ELSE req' = [req EXCEPT ![s].pc = "update"]
    /\ UNCHANGED <<users, now>>

(* the attributes of the model: the columns of the users table *)
ModelAttributes ==
    {"id", "name", "email", "password", "role", "phone", "date_of_birth",
     "is_active", "last_login_at", "email_verified_at", "avatar_url",
     "is_deleted", "deleted_at", "created_at", "updated_at"}

(* instance.update(values): the keys that are attributes of the model are set *)
SetKeys(body) == (DOMAIN body) \cap ModelAttributes

Changed(body, user) == {f \in SetKeys(body) : body[f] # user[f]}

Merged(row, body) ==
    [f \in DOMAIN row |->
        IF f \in SetKeys(body) THEN body[f]
        ELSE IF f = "updated_at" THEN now
        ELSE row[f]]

(* the catch block of updateUser *)
UpdateCatch(errorName) ==
    IF errorName = "SequelizeUniqueConstraintError"
    THEN sendBadRequestResponse("Email already exists")
    ELSE sendServerErrorResponse("Failed to update user")

(* updateUser: await user.update(updateData), with the catch of its errors *)
UpdateWrite(s) ==
    /\ req[s].op = "updateUser" /\ req[s].pc = "update"
    /\ LET body == req[s].body
           id == req[s].id IN
         IF Changed(body, req[s].user[1]) = {}
         THEN /\ req' = [req EXCEPT ![s].pc = "findByPk"]
              /\ UNCHANGED <<users, now>>
         ELSE IF "email" \in SetKeys(body) /\ UniqueViolation(body.email, id)
         THEN /\ Finish(s, UpdateCatch("SequelizeUniqueConstraintError"))
              /\ UNCHANGED <<users, now>>
         ELSE /\ now < MaxTime
              /\ users' = [users EXCEPT ![id] = Merged(@, body)]
              /\ now' = now + 1
              /\ req' = [req EXCEPT ![s].pc = "findByPk"]

(* the model's default scope hides the soft-deleted rows *)
DefaultScope(row) == NotDeleted(row)

(* User.findByPk(user.id, { attributes: { exclude: ['password'] } }) *)
FindByPk(id) ==
    IF id \in 1..Len(users) /\ DefaultScope(users[id])
    THEN <<Exclude(users[id], {"password"})>> ELSE <<>>

UpdateFindByPk(s) ==
    /\ req[s].op = "updateUser" /\ req[s].pc = "findByPk"
    /\ LET updatedUser == FindByPk(req[s].id) IN
         IF updatedUser = <<>>
         THEN Finish(s, sendSuccessResponse("User updated successfully", "null", NoBody))
         ELSE Finish(s, sendSuccessResponse("User updated successfully", "user",
                                            updatedUser[1]))
    /\ UNCHANGED <<users, now>>

----------------------------------------------------------------------------
(* Requests as they arrive: the router of routes/user.js and the validation
   middlewares in front of the handlers *)

Digit ==
    ("0" :> 0) @@ ("1" :> 1) @@ ("2" :> 2) @@ ("3" :> 3) @@ ("4" :> 4)
    @@ ("5" :> 5) @@ ("6" :> 6) @@ ("7" :> 7) @@ ("8" :> 8) @@ ("9" :> 9)

LowerLetters ==
    {"a", "b", "c", "d", "e", "f", "g", "h", "i", "j", "k", "l", "m",
     "n", "o", "p", "q", "r", "s", "t", "u", "v", "w", "x", "y", "z"}

UpperLetters ==
    {"A", "B", "C", "D", "E", "F", "G", "H", "I", "J", "K", "L", "M",
     "N", "O", "P", "Q", "R", "S", "T", "U", "V", "W", "X", "Y", "Z"}

(* [@$!%*?&] *)
SpecialChars == {"@", "$", "!", "%", "*", "?", "&"}

(* /^[0-9]+$/ *)
IsDigits(chars) ==
    chars # <<>> /\ \A k \in 1..Len(chars) : chars[k] \in DOMAIN Digit

(* the value of a run of digits *)
RECURSIVE DigitsValue(_)
DigitsValue(chars) ==
    IF chars = <<>> THEN 0
    ELSE 10 * DigitsValue(SubSeq(chars, 1, Len(chars) - 1)) + Digit[chars[Len(chars)]]

(* parseInt(id): the digits a string starts with *)
RECURSIVE LeadingDigits(_)
LeadingDigits(chars) ==
    IF chars = <<>> \/ Head(chars) \notin DOMAIN Digit THEN <<>>
    ELSE <<Head(chars)>> \o LeadingDigits(Tail(chars))

parseInt(string) == DigitsValue(LeadingDigits(Chars[string]))

FieldError(field, message) == [field |-> field, message |-> message]

(* page: Joi.number().integer().min(1).default(1) *)
PageErrors(query) ==
    IF "page" \notin DOMAIN query THEN <<>>
    ELSE IF ~ IsDigits(Chars[query.page])
    THEN <<FieldError("page", "Page must be a number")>>
    ELSE IF DigitsValue(Chars[query.page]) < 1
    THEN <<FieldError("page", "Page must be at least 1")>>
    ELSE <<>>

(* a limit rule without .max(100) *)
LimitErrorsNoMax(query) ==
    IF "limit" \notin DOMAIN query THEN <<>>
    ELSE IF ~ IsDigits(Chars[query.limit])
    THEN <<FieldError("limit", "Limit must be a number")>>
    ELSE IF DigitsValue(Chars[query.limit]) < 1
    THEN <<FieldError("limit", "Limit must be at least 1")>>
    ELSE <<>>

(* limit: Joi.number().integer().min(1).max(100).default(10) *)
LimitErrors(query) ==
    IF "limit" \notin DOMAIN query THEN <<>>
    ELSE IF ~ IsDigits(Chars[query.limit])
    THEN <<FieldError("limit", "Limit must be a number")>>
    ELSE IF DigitsValue(Chars[query.limit]) < 1
    THEN <<FieldError("limit", "Limit must be at least 1")>>
    ELSE IF DigitsValue(Chars[query.limit]) > 100
    THEN <<FieldError("limit", "Limit must be at most 100")>>
    ELSE <<>>

(* search: Joi.string().min(1).max(100).optional() *)
SearchErrors(query) ==
    IF "search" \notin DOMAIN query THEN <<>>
    ELSE IF Len(Chars[query.search]) < 1
    THEN <<FieldError("search", "Search term must be at least 1 character")>>
    ELSE IF Len(Chars[query.search]) > 100
    THEN <<FieldError("search", "Search term must be less than 100 characters")>>
    ELSE <<>>

(* role: Joi.string().valid('user', 'admin', 'moderator') *)
RoleErrors(input) ==
    IF "role" \notin DOMAIN input \/ input.role \in {"user", "admin", "moderator"}
    THEN <<>>
    ELSE <<FieldError("role", "Role must be one of: user, admin, moderator")>>

SortByErrors(query) ==
    IF "sortBy" \notin DOMAIN query
       \/ query.sortBy \in {"name", "email", "createdAt", "updatedAt"}
    THEN <<>>
    ELSE <<FieldError("sortBy",
             "Sort field must be one of: name, email, createdAt, updatedAt")>>

SortOrderErrors(query) ==
    IF "sortOrder" \notin DOMAIN query \/ query.sortOrder \in {"asc", "desc"}
    THEN <<>>
    ELSE <<FieldError("sortOrder", "Sort order must be either asc or desc")>>

(* userQuerySchema with abortEarly: false: every failed key, in schema order *)
userQuerySchema(query) ==
    PageErrors(query) \o LimitErrors(query) \o SearchErrors(query)
    \o RoleErrors(query) \o SortByErrors(query) \o SortOrderErrors(query)

(* the value Joi returns for a valid query: numbers converted, defaults set *)
QueryValue(query) ==
    QueryDefaults([k \in DOMAIN query |->
                      IF k \in {"page", "limit"}
                      THEN DigitsValue(Chars[query[k]]) ELSE query[k]])

(* userParamsSchema: id is a string of digits *)
userParamsSchema(params) ==
    IF IsDigits(Chars[params.id]) THEN <<>>
    ELSE <<FieldError("id", "User ID must be a valid number")>>

(* name: Joi.string().min(2).max(50) *)
NameErrors(body, required) ==
    IF "name" \notin DOMAIN body
    THEN IF required THEN <<FieldError("name", "Name is required")>> ELSE <<>>
    ELSE IF Len(Chars[body.name]) < 2
    THEN <<FieldError("name", "Name must be at least 2 characters long")>>
    ELSE IF Len(Chars[body.name]) > 50
    THEN <<FieldError("name", "Name must be less than 50 characters")>>
    ELSE <<>>

(* Joi's email rule on the strings of the model: local part, @, a domain
   of at least two dot-separated parts *)
IsEmail(chars) ==
    \E at \in 2..Len(chars) :
        /\ chars[at] = "@"
        /\ \A k \in 1..Len(chars) : chars[k] = "@" => k = at
        /\ \E dot \in (at + 2)..(Len(chars) - 1) : chars[dot] = "."

(* a schema without the email rule *)
EmailErrorsNone(body, required) == <<>>

(* email: Joi.string().email() *)
EmailErrors(body, required) ==
    IF "email" \notin DOMAIN body
    THEN IF required THEN <<FieldError("email", "Email is required")>> ELSE <<>>
    ELSE IF ~ IsEmail(Chars[body.email])
    THEN <<FieldError("email", "Email must be a valid email address")>>
    ELSE <<>>

(* the password pattern: a lowercase and an uppercase letter, a digit and a
   special character somewhere, and a first character of one of these classes *)
PasswordPattern(chars) ==
    /\ \E k \in 1..Len(chars) : chars[k] \in LowerLetters
    /\ \E k \in 1..Len(chars) : chars[k] \in UpperLetters
    /\ \E k \in 1..Len(chars) : chars[k] \in DOMAIN Digit
    /\ \E k \in 1..Len(chars) : chars[k] \in SpecialChars
    /\ chars[1] \in LowerLetters \cup UpperLetters \cup DOMAIN Digit \cup SpecialChars

(* password: Joi.string().min(8).pattern(..).required() *)
PasswordErrors(body) ==
    IF "password" \notin DOMAIN body
    THEN <<FieldError("password", "Password is required")>>
    ELSE (IF Len(Chars[body.password]) < 8
          THEN <<FieldError("password", "Password must be at least 8 characters long")>>
          ELSE <<>>)
         \o
         (IF ~ PasswordPattern(Chars[body.password])
          THEN <<FieldError("password", "Password must contain at least one uppercase letter, one lowercase letter, one number, and one special character")>>
          ELSE <<>>)

createUserSchema(body) ==
    NameErrors(body, TRUE) \o EmailErrors(body, TRUE) \o PasswordErrors(body)
    \o RoleErrors(body)

UpdateSchemaKeys == {"name", "email", "phone", "dateOfBirth", "isActive"}

(* a validation that keeps the keys the schema does not name *)
KeepUnknown(body, keys) == body

(* stripUnknown: true *)
StripUnknown(body, keys) == [k \in (DOMAIN body) \cap keys |-> body[k]]

(* a schema without .min(1) *)
ObjectMinNone(body) == <<>>

(* .min(1): at least one key *)
ObjectMin(body) ==
    IF StripUnknown(body, UpdateSchemaKeys) = NoBody
    THEN <<FieldError("", "At least one field must be provided for update")>>
    ELSE <<>>

updateUserSchema(body) ==
    NameErrors(body, FALSE) \o EmailErrors(body, FALSE) \o ObjectMin(body)

(* a router whose DELETE route has no validation middleware *)
RoutesDeleteUnvalidated ==
    <<[method |-> "GET", path |-> "/", validators |-> <<"query">>,
       handler |-> "getUsers"],
      [method |-> "GET", path |-> "/error", validators |-> <<>>,
       handler |-> "triggerError"],
      [method |-> "GET", path |-> "/:id", validators |-> <<"params">>,
       handler |-> "getUser"],
      [method |-> "POST", path |-> "/", validators |-> <<"createBody">>,
       handler |-> "createUser"],
      [method |-> "PUT", path |-> "/:id", validators |-> <<"params", "updateBody">>,
       handler |-> "updateUser"],
      [method |-> "DELETE", path |-> "/:id", validators |-> <<>>,
       handler |-> "deleteUser"]>>

(* a router that registers /:id before /error *)
RoutesIdBeforeError ==
    <<[method |-> "GET", path |-> "/", validators |-> <<"query">>,
       handler |-> "getUsers"],
      [method |-> "GET", path |-> "/:id", validators |-> <<"params">>,
       handler |-> "getUser"],
      [method |-> "GET", path |-> "/error", validators |-> <<>>,
       handler |-> "triggerError"],
      [method |-> "POST", path |-> "/", validators |-> <<"createBody">>,
       handler |-> "createUser"],
      [method |-> "PUT", path |-> "/:id", validators |-> <<"params", "updateBody">>,
       handler |-> "updateUser"],
      [method |-> "DELETE", path |-> "/:id", validators |-> <<"params">>,
       handler |-> "deleteUser"]>>

(* routes/user.js: the routes in the order of their registration, each with
   its validation middlewares and its handler *)
Routes ==
    <<[method |-> "GET", path |-> "/", validators |-> <<"query">>,
       handler |-> "getUsers"],
      [method |-> "GET", path |-> "/error", validators |-> <<>>,
       handler |-> "triggerError"],
      [method |-> "GET", path |-> "/:id", validators |-> <<"params">>,
       handler |-> "getUser"],
      [method |-> "POST", path |-> "/", validators |-> <<"createBody">>,
       handler |-> "createUser"],
      [method |-> "PUT", path |-> "/:id", validators |-> <<"params", "updateBody">>,
       handler |-> "updateUser"],
      [method |-> "DELETE", path |-> "/:id", validators |-> <<"params">>,
       handler |-> "deleteUser"]>>

(* a route path against the segments of the request path under /users *)
PathMatches(path, segments) ==
    CASE path = "/" -> segments = <<>>
      [] path = "/error" -> segments = <<"error">>
      [] path = "/:id" -> Len(segments) = 1

(* the routes that take the request, by their position in the router *)
Matching(routes, request) ==
    {k \in 1..Len(routes) :
        /\ routes[k].method = request.method
        /\ PathMatches(routes[k].path, request.path)}

(* the route that Express runs: the first registered one that matches *)
FirstMatch(routes, request) ==
    routes[CHOOSE k \in Matching(routes, request) :
              \A j \in Matching(routes, request) : k <= j]

(* req.params of the /:id routes *)
Params(request) == [id |-> request.path[1]]

(* the errors a validation middleware finds in its part of the request *)
ValidatorErrors(validator, request) ==
    CASE validator = "query" -> userQuerySchema(request.query)
      [] validator = "params" -> userParamsSchema(Params(request))
      [] validator = "createBody" -> createUserSchema(request.body)
      [] validator = "updateBody" -> updateUserSchema(request.body)

(* the messages of validateQuery and validateParams *)
QueryValidationMessage == "Query validation failed"
ParamsValidationMessage == "Parameter validation failed"

(* the message each validation middleware answers with; validateBody:
   sendValidationErrorResponse(res, 'Validation failed', errorMessages) *)
ValidatorMessage(validator) ==
    CASE validator = "query" -> QueryValidationMessage
      [] validator = "params" -> ParamsValidationMessage
      [] OTHER -> "Validation failed"

(* the middlewares of a route run in order; the first that finds errors
   answers and the rest of the chain does not run: <<>> when all call next() *)
RECURSIVE RunValidators(_, _)
RunValidators(validators, request) ==
    IF validators = <<>> THEN <<>>
    ELSE LET errors == ValidatorErrors(Head(validators), request) IN
         IF errors # <<>>
         THEN <<sendValidationErrorResponse(ValidatorMessage(Head(validators)), errors)>>
         ELSE RunValidators(Tail(validators), request)

(* the global error handler: err.message, err.statusCode || 500, and the
   stack as the data of the response when NODE_ENV is development *)
errorHandler(message, nodeEnv) ==
    IF nodeEnv = "development"
    THEN Envelope(500, message, "debug", [stack |-> "stack", error |-> message])
    ELSE Envelope(500, message, "null", NoBody)

(* process.env.NODE_ENV: set once for a process; the error handler reads it *)
NodeEnvs == {"development", "production", "test"}

(* the handler starts with the validated values and runs to its first await *)
Handle(handler, request) ==
    CASE handler = "getUsers" ->
            Task("getUsers", "findAndCountAll", 0, QueryValue(request.query))
      [] handler = "getUser" ->
            Task("getUser", "findOne", parseInt(request.path[1]), NoBody)
      [] handler = "createUser" ->
            Task("createUser", "findOne", 0, CreateDefaults(request.body))
      [] handler = "updateUser" ->
            Task("updateUser", "findOne", parseInt(request.path[1]),
                 StripUnknown(request.body, UpdateSchemaKeys))
      [] handler = "deleteUser" ->
            Task("deleteUser", "findOne", parseInt(request.path[1]), NoBody)

(* the query strings of GET /users *)
RawQueries ==
    {NoBody}
    \cup {[page |-> p, limit |-> l] : p \in {"0", "1", "2", "3"},
                                      l \in {"0", "1", "2", "100", "101"}}
    \cup {[page |-> "x"], [limit |-> "x"], [page |-> "2"], [limit |-> "1"]}
    \cup {[search |-> t] : t \in {"A", "b@", "_", "z"}}
    \cup {[role |-> r] : r \in {"admin", "user", "root"}}
    \cup {[search |-> "A", role |-> "admin"],
          [search |-> "A", page |-> "2", limit |-> "1"],
          [sortBy |-> "updatedAt"], [sortOrder |-> "asc"],
          [sortBy |-> "updatedAt", sortOrder |-> "asc", limit |-> "1"],
          [sortBy |-> "password"], [sortOrder |-> "up"]}

(* the path segments after /users *)
Segments == {"1", "2", "3", "4", "1a", "error"}

RawCreateBodies ==
    CreateBodies
    \cup {[name |-> "Ann", email |-> "bad", password |-> "Passw0rd!"],
          [email |-> "a@x.io", password |-> "bad"]}

RawUpdateBodies ==
    UpdateBodies
    \cup {NoBody, [email |-> "bad"], [name |-> "A"],
          [name |-> "Bob", role |-> "admin"]}

HttpRequest(method, path, query, body) ==
    [method |-> method, path |-> path, query |-> query, body |-> body]

HttpRequests ==
    {HttpRequest("GET", <<>>, q, NoBody) : q \in RawQueries}
    \cup {HttpRequest("GET", <<g>>, NoBody, NoBody) : g \in Segments}
    \cup {HttpRequest("POST", <<>>, NoBody, b) : b \in RawCreateBodies}
    \cup {HttpRequest("PUT", <<g>>, NoBody, b) : g \in Segments, b \in RawUpdateBodies}
    \cup {HttpRequest("DELETE", <<g>>, NoBody, NoBody) : g \in Segments}
    \cup {HttpRequest("DELETE", <<>>, NoBody, NoBody)}

(* a response sent before any handler has started: the request stays on
   record with it *)
Respond(s, response) ==
    req' = [req EXCEPT ![s].pc = "done", ![s].res = response]

(* a request reaches the server *)
Arrive(s) ==
    /\ Free(s)
    /\ \E request \in HttpRequests :
          req' = [req EXCEPT ![s] = Task("http", "arrived", 0, request)]
    /\ UNCHANGED <<users, now>>

(* Express runs the request through the router: the first matching route,
   its validators, then its handler up to the first await; a request that no
   route takes falls to the catch-all of the application *)
Dispatch(s) ==
    /\ req[s].op = "http" /\ req[s].pc = "arrived"
    /\ LET request == req[s].body IN
         IF Matching(Routes, request) = {}
         THEN Respond(s, sendNotFoundResponse("Route not found"))
         ELSE LET route == FirstMatch(Routes, request)
                  failure == RunValidators(route.validators, request) IN
              IF failure # <<>>
              THEN Respond(s, failure[1])
              ELSE IF route.handler = "triggerError"
              THEN \E nodeEnv \in NodeEnvs :
                      Respond(s, errorHandler("This is a test error", nodeEnv))
              ELSE req' = [req EXCEPT ![s] = Handle(route.handler, request)]
    /\ UNCHANGED <<users, now>>

----------------------------------------------------------------------------
(* Store failures: an awaited store call rejects and the handler's catch
   block answers *)

(* an error of the store that is neither a validation error nor a
   unique-constraint error *)
StoreError == "SequelizeConnectionError"

(* the positions at which a handler awaits the store *)
StoreCalls ==
    {"findAndCountAll", "findOne", "emailExists", "create", "update", "findByPk"}

(* the catch block of each handler *)
HandlerCatch(op) ==
    CASE op = "getUsers" -> sendServerErrorResponse("Failed to retrieve users")
      [] op = "getUser" -> sendServerErrorResponse("Failed to retrieve user")
      [] op = "createUser" -> CreateCatch(StoreError)
      [] op = "updateUser" -> UpdateCatch(StoreError)
      [] op = "deleteUser" -> sendServerErrorResponse("Failed to delete user")

(* the store call that task s awaits rejects: the statement has no effect and
   the catch block of the handler sends the response *)
StoreFails(s) ==
    /\ req[s].op \in {"getUsers", "getUser", "createUser", "updateUser", "deleteUser"}
    /\ req[s].pc \in StoreCalls
    /\ Finish(s, HandlerCatch(req[s].op))
    /\ UNCHANGED <<users, now>>

----------------------------------------------------------------------------
(* The health router, mounted at /health *)

(* GET /health, /health/ready and /health/live *)
HealthRequests ==
    {[method |-> "GET", mount |-> "/health", path |-> p] :
        p \in {<<>>, <<"ready">>, <<"live">>}}

(* a health handler that answers as the catch block of GET /health *)
HealthResponseFailed(path, nodeEnv) ==
    sendServerErrorResponse("Health check failed")

(* the three handlers of the health router: each builds its report from the
   process alone and sends it *)
HealthResponse(path, nodeEnv) ==
    CASE path = <<>> ->
            sendSuccessResponse("Service is healthy", "health",
                                [environment |-> nodeEnv, version |-> "1.0.0"])
      [] path = <<"ready">> ->
            sendSuccessResponse("Service is ready", "health",
                                [database |-> "connected", services |-> "operational"])
      [] path = <<"live">> ->
            sendSuccessResponse("Service is alive", "health", [status |-> "alive"])

ArriveHealth(s) ==
    /\ Free(s)
    /\ \E request \in HealthRequests :
          req' = [req EXCEPT ![s] = Task("health", "arrived", 0, request)]
    /\ UNCHANGED <<users, now>>

ServeHealth(s) ==
    /\ req[s].op = "health" /\ req[s].pc = "arrived"
    /\ \E nodeEnv \in NodeEnvs :
          Respond(s, HealthResponse(req[s].body.path, nodeEnv))
    /\ UNCHANGED <<users, now>>

----------------------------------------------------------------------------

Init ==
    /\ users = <<>>
    /\ now = 1
    /\ req = [s \in Slots |-> Idle]

(* a request arrives and its handler starts *)
Receive(s) ==
    \/ ReceiveList(s)
    \/ ReceiveGet(s)
    \/ ReceiveCreate(s)
    \/ ReceiveUpdate(s)
    \/ ReceiveDelete(s)

(* a suspended handler resumes and runs to its next await or to its response *)
Resume(s) ==
    \/ ListFindAndCountAll(s)
    \/ GetFindOne(s)
    \/ CreateFindOne(s)
    \/ CreateInsert(s)
    \/ UpdateFindOne(s)
    \/ UpdateEmailExists(s)
    \/ UpdateWrite(s)
    \/ UpdateFindByPk(s)
    \/ DeleteFindOne(s)
    \/ DeleteWrite(s)

Next == \E s \in Slots : Receive(s) \/ Resume(s)

Spec == Init /\ [][Next]_vars

(* One request at a time: a request is received only when no task is in flight *)
NextSeq ==
    \E s \in Slots :
        \/ (\A t \in Slots : Free(t)) /\ Receive(s)
        \/ Resume(s)

SpecSeq == Init /\ [][NextSeq]_vars

(* The server behind its router, serving one request after the other *)
NextHttp ==
    \E s \in {"r1"} :
        \/ Arrive(s)
        \/ Dispatch(s)
        \/ Resume(s)

SpecHttp == Init /\ [][NextHttp]_vars

(* The same server with a store whose calls can fail *)
NextFault ==
    \E s \in {"r1"} :
        \/ Arrive(s)
        \/ Dispatch(s)
        \/ Resume(s)
        \/ StoreFails(s)
        \/ ArriveHealth(s)
        \/ ServeHealth(s)

SpecFault == Init /\ [][NextFault]_vars

-----------------------------------------------------------------------------
(* Start-up: the process of startServer() is the task of slot "r2"; its
   locals are the environment, the outcome of the two checks, the layers
   registered on the app in order, and the exit code *)

RequiredEnvVars == {"DB_NAME", "DB_USERNAME", "JWT_SECRET"}
ValidDialects == {"mysql", "postgres", "sqlite", "mariadb", "mssql"}

(* process.env: the required variables that are set, DB_DIALECT ("" when
   unset) and whether the connection URI is set *)
Environments ==
    [set : SUBSET RequiredEnvVars, DB_DIALECT : {"", "mysql", "oracle"},
     uri : BOOLEAN]

NotExited == 0 - 1

Process(env) ==
    Task("startServer", "validateEnv", 0,
         [env |-> env, validated |-> "pending", connected |-> "pending",
          stack |-> <<>>, code |-> NotExited])

server == req["r2"]

Advance(pc, changes) ==
    req' = [req EXCEPT !["r2"].pc = pc,
                       !["r2"].body = changes @@ req["r2"].body]

exit(code, changes) == Advance("exited", [code |-> code] @@ changes)

(* validateEnv() returns when nothing is missing and the dialect is known *)
EnvPasses(env) ==
    /\ RequiredEnvVars \ env.set = {}
    /\ env.DB_DIALECT # "" => env.DB_DIALECT \in ValidDialects

(* startServer: validateEnv() throws into the catch of startServer *)
ValidateEnv ==
    /\ server.op = "startServer" /\ server.pc = "validateEnv"
    /\ IF EnvPasses(server.body.env)
       THEN Advance("connectDB", [validated |-> "passed"])
       ELSE exit(1, [validated |-> "failed"])
    /\ UNCHANGED <<users, now>>

(* a failed connection that is logged and survived *)
ConnectDBSurviving ==
    /\ server.op = "startServer" /\ server.pc = "connectDB"
    /\ \E ok \in BOOLEAN :
          Advance("initializeMiddlewares",
                  [connected |-> IF ok /\ server.body.env.uri
                                 THEN "connected" ELSE "failed"])
    /\ UNCHANGED <<users, now>>

(* connectDB: a missing URI or a rejected connect ends in its own catch *)
ConnectDB ==
    /\ server.op = "startServer" /\ server.pc = "connectDB"
    /\ IF ~ server.body.env.uri
       THEN exit(1, [connected |-> "failed"])
       ELSE \E ok \in BOOLEAN :
               IF ok THEN Advance("initializeMiddlewares", [connected |-> "connected"])
               ELSE exit(1, [connected |-> "failed"])
    /\ UNCHANGED <<users, now>>

Register(pc, layers) == Advance(pc, [stack |-> server.body.stack \o layers])

initializeMiddlewares ==
    /\ server.op = "startServer" /\ server.pc = "initializeMiddlewares"
    /\ Register("initializeRoutes",
                <<"helmet", "cors", "json", "urlencoded", "limiter">>)
    /\ UNCHANGED <<users, now>>

initializeRoutes ==
    /\ server.op = "startServer" /\ server.pc = "initializeRoutes"
    /\ Register("initializeErrorHandling", <<"routes", "catchAll">>)
    /\ UNCHANGED <<users, now>>

initializeErrorHandling ==
    /\ server.op = "startServer" /\ server.pc = "initializeErrorHandling"
    /\ Register("listen", <<"errorHandler">>)
    /\ UNCHANGED <<users, now>>

Listen ==
    /\ server.op = "startServer" /\ server.pc = "listen"
    /\ Advance("listening", NoBody)
    /\ UNCHANGED <<users, now>>

(* SIGTERM, SIGINT *)
Signal ==
    /\ server.op = "startServer" /\ server.pc # "exited"
    /\ exit(0, NoBody)
    /\ UNCHANGED <<users, now>>

Listening == server.op = "startServer" /\ server.pc = "listening"

InitBoot ==
    /\ users = <<>>
    /\ now = 1
    /\ \E env \in Environments :
          req = [s \in Slots |-> IF s = "r2" THEN Process(env) ELSE Idle]

NextBoot ==
    \/ ValidateEnv
    \/ ConnectDB
    \/ initializeMiddlewares
    \/ initializeRoutes
    \/ initializeErrorHandling
    \/ Listen
    \/ Signal
    \/ Listening /\ Arrive("r1")
    \/ Listening /\ Dispatch("r1")
    \/ Listening /\ Resume("r1")

SpecBoot == InitBoot /\ [][NextBoot]_vars

-----------------------------------------------------------------------------
(* sendBulkEmails: the call is the task of slot "r1"; id is the loop index i
   (from 0), and its locals are the emails, the results pushed so far and
   the log of what the call did: send attempts and delays *)

MaxEmails == 3

MailOptions ==
    {[to |-> "a@x.io", subject |-> "Hi", text |-> "Hello"],
     [to |-> "", subject |-> "Hi", text |-> "Hello"],
     [to |-> "b@x.io", subject |-> "", text |-> "Hello"]}

EmailLists == UNION {[1..n -> MailOptions] : n \in 0..MaxEmails}

(* sendMail: missing fields throw before the transport is used; otherwise
   the transport delivers or rejects *)
sendMail(options, delivered) ==
    IF options.to = "" \/ options.subject = "" \/ options.text = ""
    THEN [success |-> FALSE,
          error |-> "Failed to send email: Missing required email fields"]
    ELSE IF delivered
    THEN [success |-> TRUE, error |-> ""]
    ELSE [success |-> FALSE, error |-> "Failed to send email: rejected"]

(* the for condition: i < emails.length, otherwise return results *)
LoopAt(i, emails) == IF i < Len(emails) THEN "sendMail" ELSE "done"

BulkCall(emails) ==
    Task("sendBulkEmails", LoopAt(0, emails), 0,
         [emails |-> emails, results |-> <<>>, log |-> <<>>])

BulkStep(pc, i, changes) ==
    req' = [req EXCEPT !["r1"].pc = pc, !["r1"].id = i,
                       !["r1"].body = changes @@ req["r1"].body]

(* one iteration up to its await of the delay, or through its catch *)
BulkSend ==
    /\ req["r1"].op = "sendBulkEmails" /\ req["r1"].pc = "sendMail"
    /\ LET i == req["r1"].id
           b == req["r1"].body
       IN \E delivered \in BOOLEAN :
            LET result == sendMail(b.emails[i + 1], delivered)
                log == Append(b.log, [event |-> "send", index |-> i,
                                      success |-> result.success])
            IN IF result.success
               THEN LET results == Append(b.results,
                                          [index |-> i, success |-> TRUE, email |-> ""])
                    IN IF i < Len(b.emails) - 1
                       THEN BulkStep("delay", i, [results |-> results, log |-> log])
                       ELSE BulkStep(LoopAt(i + 1, b.emails), i + 1,
                                     [results |-> results, log |-> log])
               ELSE BulkStep(LoopAt(i + 1, b.emails), i + 1,
                             [results |-> Append(b.results,
                                                 [index |-> i, success |-> FALSE,
                                                  email |-> b.emails[i + 1].to]),
                              log |-> log])
    /\ UNCHANGED <<users, now>>

(* the timer of delayMs fires and the loop goes on *)
BulkDelay ==
    /\ req["r1"].op = "sendBulkEmails" /\ req["r1"].pc = "delay"
    /\ LET i == req["r1"].id
           b == req["r1"].body
       IN BulkStep(LoopAt(i + 1, b.emails), i + 1,
                   [log |-> Append(b.log, [event |-> "delay", index |-> i,
                                           success |-> TRUE])])
    /\ UNCHANGED <<users, now>>

InitBulk ==
    /\ users = <<>>
    /\ now = 1
    /\ \E emails \in EmailLists :
          req = [s \in Slots |-> IF s = "r1" THEN BulkCall(emails) ELSE Idle]

NextBulk == BulkSend \/ BulkDelay

SpecBulk == InitBulk /\ [][NextBulk]_vars

-----------------------------------------------------------------------------
(* validatePagination: the call is the task of slot "r1"; its locals are the
   two arguments (<<>> when absent, else the argument as a string) and what
   the call threw or returned *)

PageArguments == {<<>>} \cup {<<v>> : v \in {"-1", "0", "1", "2", "3", "abc", "1a"}}
LimitArguments ==
    {<<>>} \cup {<<v>> : v \in {"-1", "0", "1", "5", "10", "1000", "1001", "abc"}}

(* parseInt(argument): <<>> for NaN, else <<n>>; a sign may lead the digits *)
parseIntOrNaN(argument) ==
    IF argument = <<>> THEN <<>>
    ELSE LET chars == Chars[argument[1]]
             signed == chars # <<>> /\ Head(chars) \in {"-", "+"}
             digits == LeadingDigits(IF signed THEN Tail(chars) ELSE chars)
         IN IF digits = <<>> THEN <<>>
            ELSE IF signed /\ Head(chars) = "-" THEN <<0 - DigitsValue(digits)>>
            ELSE <<DigitsValue(digits)>>

(* parsed || fallback: NaN and 0 are falsy *)
OrElse(parsed, fallback) ==
    IF parsed = <<>> \/ parsed = <<0>> THEN fallback ELSE parsed[1]

Thrown(message) == [thrown |-> message, value |-> [page |-> 0, limit |-> 0]]
Returned(value) == [thrown |-> "", value |-> value]

validatePagination(page, limit) ==
    LET pageNum == OrElse(parseIntOrNaN(page), 1)
        limitNum == OrElse(parseIntOrNaN(limit), 10)
    IN IF pageNum < 1 THEN Thrown("Page number must be greater than 0")
       ELSE IF limitNum < 1 \/ limitNum > 1000
       THEN Thrown("Limit must be between 1 and 1000")
       ELSE Returned([page |-> pageNum, limit |-> limitNum])

PaginationCall(page, limit) ==
    Task("validatePagination", "called", 0,
         [page |-> page, limit |-> limit, outcome |-> Returned([page |-> 0, limit |-> 0])])

ValidatePagination ==
    /\ req["r1"].op = "validatePagination" /\ req["r1"].pc = "called"
    /\ LET b == req["r1"].body
           outcome == validatePagination(b.page, b.limit)
       IN req' = [req EXCEPT !["r1"].pc = IF outcome.thrown = "" THEN "returned" ELSE "threw",
                             !["r1"].body = [b EXCEPT !.outcome = outcome]]
    /\ UNCHANGED <<users, now>>

InitPagination ==
    /\ users = <<>>
    /\ now = 1
    /\ \E page \in PageArguments, limit \in LimitArguments :
          req = [s \in Slots |-> IF s = "r1" THEN PaginationCall(page, limit) ELSE Idle]

NextPagination == ValidatePagination

SpecPagination == InitPagination /\ [][NextPagination]_vars

----------------------------------------------------------------------------
(* Properties *)

(* task s, suspended in handler op at position pc, is the one that runs *)
Ran(s, op, pc) == req[s].op = op /\ req[s].pc = pc /\ req'[s] # req[s]

Answered(s, op, status) ==
    req[s].op = op /\ req[s].pc = "done" /\ req[s].res.status = status

Stored(i) == i \in 1..Len(users)

(* C1: no response body carries a password field: neither the single user
   of Get, Create and Update, nor an item of a List, nor the summary of Delete *)
C1_NoPasswordInResponse ==
    \A s \in Slots :
        LET r == req[s].res IN
        /\ r.kind = "user" => "password" \notin DOMAIN r.data
        /\ r.kind = "list" =>
              \A k \in 1..Len(r.data) : "password" \notin DOMAIN r.data[k]
        /\ r.kind = "summary" => "password" \notin DOMAIN r.data.deletedUser

C1_Witness ==
    \E s \in Slots :
        /\ Answered(s, "getUser", 200)
        /\ Stored(req[s].res.data.id)
        /\ users[req[s].res.data.id].password = Hash("Passw0rd!")
        /\ \E t \in Slots : Answered(t, "createUser", 201)

(* C2: a row whose deletion flag is set stays in the table with the flag
   set; every later lookup of its id by Get, Update or Delete is answered 404
   and writes nothing; every later List leaves it out *)
C2_SoftDeletedStaysHidden ==
    [][\A i \in 1..Len(users) : users[i].is_deleted =>
          /\ Len(users') >= i /\ users'[i].is_deleted /\ users'[i].id = i
          /\ \A s \in Slots :
                /\ (\/ Ran(s, "getUser", "findOne")
                    \/ Ran(s, "updateUser", "findOne")
                    \/ Ran(s, "deleteUser", "findOne")) /\ req[s].id = i
                   => /\ req'[s].pc = "done"
                      /\ req'[s].res.status = 404
                      /\ users' = users
                /\ Ran(s, "getUsers", "findAndCountAll")
                   => \A k \in 1..Len(req'[s].res.data) :
                         req'[s].res.data[k].id # i]_vars

C2_Witness ==
    \E s, t \in Slots :
        /\ Answered(s, "deleteUser", 200)
        /\ Answered(t, "getUser", 404)
        /\ req[t].id = req[s].id
        /\ Stored(req[s].id) /\ users[req[s].id].is_deleted

(* C3: no two rows that are not deleted hold the same email *)
C3_UniqueLiveEmail ==
    \A i, j \in 1..Len(users) :
        (i # j /\ ~ users[i].is_deleted /\ ~ users[j].is_deleted)
            => users[i].email # users[j].email

C3_Witness ==
    /\ \A i \in 1..Len(users) : ~ users[i].is_deleted
    /\ \E s, t \in Slots :
          /\ Answered(s, "createUser", 400)
          /\ req[s].res.message = "Email already exists"
          /\ Answered(t, "updateUser", 200)
          /\ req[t].res.kind = "user"
          /\ users[req[t].id].email = req[t].res.data.email

(* C4: of two Create requests for an email no row holds, both past the
   existence check before either inserts, exactly one is answered 201 and the
   other 400, and one row holds the email; no Create that loses, at the
   existence check or at the unique index, is answered 500 *)
C4_RaceHasOneWinner ==
    /\ \A s \in Slots :
          (req[s].op = "createUser" /\ req[s].pc = "done")
             => req[s].res.status \in {201, 400}
    /\ \A s, t \in Slots :
        (/\ s # t
         /\ req[s].op = "createUser" /\ req[s].pc = "done" /\ req[s].raced
         /\ req[t].op = "createUser" /\ req[t].pc = "done" /\ req[t].raced)
        => /\ {req[s].res.status, req[t].res.status} = {201, 400}
           /\ \A w \in {s, t} : req[w].res.status = 201 =>
                Cardinality({i \in 1..Len(users) :
                                users[i].email = req[w].res.data.email}) = 1

C4_Witness ==
    \E s, t \in Slots :
        /\ s # t
        /\ Answered(s, "createUser", 201) /\ req[s].raced
        /\ Answered(t, "createUser", 400) /\ req[t].raced
        /\ req[t].res.message = "Email already exists"

(* C5: a Create whose email a row that is not deleted holds is answered 400
   with the duplicate-email message and writes nothing *)
C5_DuplicateEmailRejected ==
    [][\A s \in Slots :
          (/\ Ran(s, "createUser", "findOne")
           /\ \E i \in 1..Len(users) :
                 users[i].email = req[s].body.email /\ ~ users[i].is_deleted)
          => /\ req'[s].pc = "done"
             /\ req'[s].res.status = 400
             /\ req'[s].res.message = "User with this email already exists"
             /\ users' = users]_vars

C5_Witness ==
    \E s \in Slots :
        /\ Answered(s, "createUser", 400)
        /\ req[s].res.message = "User with this email already exists"
        /\ \E i \in 1..Len(users) : ~ users[i].is_deleted

(* C6: a Create whose email no row that is not deleted holds stores a new
   row with that email and is answered 201, also when a soft-deleted row
   holds the email *)
C6_CreateSucceedsWithoutLiveHolder ==
    [][\A s \in Slots :
          (/\ Ran(s, "createUser", "create")
           /\ ~ \E i \in 1..Len(users) :
                 users[i].email = req[s].body.email /\ ~ users[i].is_deleted)
          => /\ req'[s].res.status = 201
             /\ Len(users') = Len(users) + 1
             /\ users'[Len(users')].email = req[s].body.email]_vars

(* C7: a Delete of a stored, not deleted, non-admin user goes on to the
   soft delete and is answered 200; a Delete of the id after that is answered
   404 'User not found' and writes nothing *)
C7_DeleteTwice ==
    [][\A s \in Slots :
          LET i == req[s].id IN
          /\ (Ran(s, "deleteUser", "findOne") /\ Stored(i)
                /\ ~ users[i].is_deleted /\ users[i].role # "admin")
             => req'[s].pc = "update" /\ users' = users
          /\ Ran(s, "deleteUser", "update")
             => /\ req'[s].pc = "done" /\ req'[s].res.status = 200
                /\ users'[i].is_deleted
          /\ (Ran(s, "deleteUser", "findOne") /\ Stored(i) /\ users[i].is_deleted)
             => /\ req'[s].pc = "done"
                /\ req'[s].res.status = 404
                /\ req'[s].res.message = "User not found"
                /\ users' = users]_vars

C7_Witness ==
    \E s, t \in Slots :
        /\ Answered(s, "deleteUser", 200)
        /\ Answered(t, "deleteUser", 404)
        /\ req[t].id = req[s].id
        /\ req[t].res.message = "User not found"
        /\ Stored(req[s].id) /\ users[req[s].id].is_deleted
        /\ users[req[s].id].role # "admin"

(* C8: a Delete of a user that is not deleted and whose role is admin is
   answered 400 'Cannot delete admin users' and writes nothing *)
C8_AdminNotDeleted ==
    [][\A s \in Slots :
          LET i == req[s].id IN
          (Ran(s, "deleteUser", "findOne") /\ Stored(i)
             /\ ~ users[i].is_deleted /\ users[i].role = "admin")
          => /\ req'[s].pc = "done"
             /\ req'[s].res.status = 400
             /\ req'[s].res.message = "Cannot delete admin users"
             /\ users' = users]_vars

C8_Witness ==
    \E s \in Slots :
        /\ Answered(s, "deleteUser", 400)
        /\ req[s].res.message = "Cannot delete admin users"
        /\ Stored(req[s].id)
        /\ users[req[s].id].role = "admin" /\ ~ users[req[s].id].is_deleted

(* C9: the write of a successful Delete sets is_deleted, a deleted_at that
   is not null and is_active = false on the target, changes nothing else but
   its updated_at, removes no row, and the answer is the summary {id, name,
   email} of the user the handler loaded, which is the stored one unless the
   row was written in between *)
C9_DeleteFrame ==
    [][\A s \in Slots :
          LET i == req[s].id IN
          Ran(s, "deleteUser", "update")
          => /\ Len(users') = Len(users)
             /\ \A j \in 1..Len(users) : j # i => users'[j] = users[j]
             /\ users'[i] = [users[i] EXCEPT !.is_deleted = TRUE,
                                             !.is_active = FALSE,
                                             !.deleted_at = users'[i].deleted_at,
                                             !.updated_at = users'[i].updated_at]
             /\ users'[i].deleted_at # NoTime
             /\ req'[s].res.status = 200
             /\ DOMAIN req'[s].res.data = {"deletedUser"}
             /\ DOMAIN req'[s].res.data.deletedUser = {"id", "name", "email"}
             /\ req'[s].res.data.deletedUser.id = i
             /\ req'[s].res.data.deletedUser.name = req[s].user[1].name
             /\ req'[s].res.data.deletedUser.email = req[s].user[1].email
             /\ users[i].updated_at = req[s].user[1].updated_at
                => /\ req'[s].res.data.deletedUser.name = users'[i].name
                   /\ req'[s].res.data.deletedUser.email = users'[i].email]_vars

C9_Witness ==
    \E s \in Slots :
        /\ Answered(s, "deleteUser", 200)
        /\ Len(users) = 2
        /\ users[req[s].id].is_deleted /\ ~ users[req[s].id].is_active
        /\ users[req[s].id].deleted_at # NoTime
        /\ req[s].res.data.deletedUser.email = users[req[s].id].email
        /\ \E j \in 1..2 : ~ users[j].is_deleted /\ users[j].is_active

(* C10: an Update of an id that no row has, or whose row is soft-deleted, is
   answered 404 'User not found' and writes nothing *)
C10_UpdateMissingIs404 ==
    [][\A s \in Slots :
          LET i == req[s].id IN
          (Ran(s, "updateUser", "findOne") /\ (~ Stored(i) \/ users[i].is_deleted))
          => /\ req'[s].pc = "done"
             /\ req'[s].res.status = 404
             /\ req'[s].res.message = "User not found"
             /\ users' = users]_vars

C10_Witness ==
    \E s, t \in Slots :
        /\ Answered(s, "updateUser", 404) /\ Stored(req[s].id)
        /\ users[req[s].id].is_deleted
        /\ Answered(t, "updateUser", 404) /\ ~ Stored(req[t].id)

(* C11: an Update whose email is held by another row that is not deleted is
   answered 400 'Email already exists' and changes no stored field; an Update
   whose email is the one its own row holds skips the look-up of the email
   and is not refused *)
C11_UpdateEmailConflict ==
    [][\A s \in Slots :
          LET i == req[s].id
              body == req[s].body IN
          /\ (/\ Ran(s, "updateUser", "emailExists")
               /\ \E j \in 1..Len(users) :
                      /\ j # i /\ ~ users[j].is_deleted
                      /\ users[j].email = body.email)
              => /\ req'[s].pc = "done"
                 /\ req'[s].res.status = 400
                 /\ req'[s].res.message = "Email already exists"
                 /\ users' = users
          /\ (/\ Ran(s, "updateUser", "findOne")
               /\ Stored(i) /\ ~ users[i].is_deleted
               /\ "email" \in DOMAIN body /\ body.email = users[i].email)
              => req'[s].pc = "update"
          /\ (/\ Ran(s, "updateUser", "update")
               /\ "email" \in DOMAIN body /\ body.email = users[i].email)
              => req'[s].pc = "findByPk"]_vars

C11_Witness ==
    \E s, t \in Slots :
        /\ Answered(s, "updateUser", 400)
        /\ req[s].res.message = "Email already exists"
        /\ Len(users) = 2
        /\ \A j \in 1..2 : ~ users[j].is_deleted
        /\ req[t].op = "updateUser" /\ req[t].pc = "update"
        /\ "email" \in DOMAIN req[t].body
        /\ req[t].body.email = users[req[t].id].email

(* the stored attribute that a field of the update schema names *)
StoredField(f) == IF f = "isActive" THEN "is_active" ELSE f

(* C12: after a successful Update every field the request provides is
   carried by the stored row and by the returned record (isActive = false
   makes the stored active flag false), and every attribute the request does
   not provide keeps its value, the time of the update excepted *)
C12_UpdateCarriesProvidedFields ==
    [][\A s \in Slots :
          LET i == req[s].id
              body == req[s].body
              res == req'[s].res IN
          /\ (Ran(s, "updateUser", "findByPk") /\ res.kind = "user")
              => \A f \in DOMAIN body :
                    /\ users[i][StoredField(f)] = body[f]
                    /\ res.data[StoredField(f)] = body[f]
          /\ Ran(s, "updateUser", "update")
              => \A f \in DOMAIN users[i] :
                    f \notin {StoredField(g) : g \in DOMAIN body}
                              \cup {"updated_at"}
                    => users'[i][f] = users[i][f]]_vars

(* the router takes the request that task s carries *)
Dispatched(s) == Ran(s, "http", "arrived")

(* task s is answered 422 with the message, in the step that took its
   request, and the store is as it was *)
Refused(s, message) ==
    /\ req'[s].pc = "done"
    /\ req'[s].res.status = 422
    /\ req'[s].res.message = message
    /\ req'[s].res.success = FALSE
    /\ users' = users /\ now' = now

(* a path of one segment that is a run of decimal digits *)
NumericId(request) ==
    /\ Len(request.path) = 1
    /\ \A k \in 1..Len(Chars[request.path[1]]) :
          Chars[request.path[1]][k]
              \in {"0", "1", "2", "3", "4", "5", "6", "7", "8", "9"}

(* a page that is an integer of at least 1 and a limit that is an integer
   from 1 to 100, each when given; filters and sort options of the allowed values *)
ValidQuery(query) ==
    /\ "page" \in DOMAIN query
       => IsDigits(Chars[query.page]) /\ DigitsValue(Chars[query.page]) >= 1
    /\ "limit" \in DOMAIN query
       => /\ IsDigits(Chars[query.limit])
          /\ DigitsValue(Chars[query.limit]) \in 1..100
    /\ "role" \in DOMAIN query => query.role \in {"user", "admin", "moderator"}
    /\ "sortBy" \in DOMAIN query
       => query.sortBy \in {"name", "email", "createdAt", "updatedAt"}
    /\ "sortOrder" \in DOMAIN query => query.sortOrder \in {"asc", "desc"}

(* the request names a user route *)
Routed(request) ==
    \/ request.path = <<>> /\ request.method \in {"GET", "POST"}
    \/ Len(request.path) = 1 /\ request.method \in {"GET", "PUT", "DELETE"}

(* every part of the request that its route validates is well-formed *)
ValidInput(request) ==
    CASE request.method = "GET" /\ request.path = <<>> -> ValidQuery(request.query)
      [] request.method = "GET" /\ request.path = <<"error">> -> TRUE
      [] request.method = "POST" -> request.body \in CreateBodies
      [] request.method = "PUT" ->
            /\ NumericId(request)
            /\ [k \in (DOMAIN request.body) \ {"role"} |-> request.body[k]]
                  \in UpdateBodies
      [] OTHER -> NumericId(request)

(* C13: a PUT /users/:id with a numeric id and an empty body is answered 422
   'Validation failed', whether the user exists or not; it is never answered
   404 or 200 and the store is neither read nor written *)
C13_EmptyUpdateIs422 ==
    [][\A s \in Slots :
          (/\ Dispatched(s)
           /\ req[s].body.method = "PUT"
           /\ NumericId(req[s].body)
           /\ req[s].body.body = NoBody)
          => Refused(s, "Validation failed")]_vars

C13_Witness ==
    \E s \in Slots :
        /\ Answered(s, "http", 422)
        /\ req[s].res.message = "Validation failed"
        /\ req[s].body.method = "PUT"
        /\ req[s].body.path = <<"1">>
        /\ req[s].body.body = NoBody
        /\ Len(users) >= 1 /\ ~ users[1].is_deleted

(* C14: on every user route validation runs before the handler: a request
   whose query, params or body fails validation is answered in the step that
   takes it, without a read or a write of the store; a handler starts only
   with input that passed every validator; on PUT the params are validated
   before the body *)
C14_ValidationBeforeHandler ==
    [][\A s \in Slots :
          Dispatched(s)
          => LET request == req[s].body IN
             /\ users' = users /\ now' = now
             /\ (Routed(request) /\ ~ ValidInput(request))
                => req'[s].pc = "done" /\ req'[s].res.status = 422
             /\ req'[s].pc # "done"
                => /\ Routed(request) /\ ValidInput(request)
                   /\ req'[s].op \in {"getUsers", "getUser", "createUser",
                                      "updateUser", "deleteUser"}
             /\ (request.method = "PUT" /\ Len(request.path) = 1
                                       /\ ~ NumericId(request))
                => req'[s].res.message = "Parameter validation failed"]_vars

C14_Witness ==
    \E s \in Slots :
        /\ Answered(s, "http", 422)
        /\ req[s].res.message = "Parameter validation failed"
        /\ req[s].body.method = "PUT"
        /\ req[s].body.path = <<"1a">>
        /\ req[s].body.body = NoBody
        /\ Len(users) >= 1

(* the message of the part of the request that fails first *)
ExpectedMessage(request) ==
    IF request.method = "GET" /\ request.path = <<>>
    THEN "Query validation failed"
    ELSE IF Len(request.path) = 1 /\ ~ NumericId(request)
    THEN "Parameter validation failed"
    ELSE "Validation failed"

(* C15: every validation failure is answered 422 with a non-empty list of
   entries, one per failed field, each with a field and a message; the message
   of the response is 'Query validation failed', 'Parameter validation failed'
   or 'Validation failed' by the part that failed; an invalid email in a
   Create body gives an entry whose field is 'email' *)
C15_ValidationFailureShape ==
    [][\A s \in Slots :
          Dispatched(s)
          => LET request == req[s].body
                 res == req'[s].res IN
             /\ (Routed(request) /\ ~ ValidInput(request)) => res.status = 422
             /\ res.status = 422
                => /\ res.success = FALSE
                   /\ res.errors # <<>>
                   /\ \A k \in 1..Len(res.errors) :
                         DOMAIN res.errors[k] = {"field", "message"}
                   /\ res.message = ExpectedMessage(request)
             /\ (/\ request.method = "POST" /\ request.path = <<>>
                 /\ "email" \in DOMAIN request.body
                 /\ \A k \in 1..Len(Chars[request.body.email]) :
                       Chars[request.body.email][k] # "@")
                => /\ res.status = 422
                   /\ \E k \in 1..Len(res.errors) : res.errors[k].field = "email"]_vars

C15_Witness ==
    \E s \in Slots :
        /\ Answered(s, "http", 422)
        /\ req[s].body.method = "POST"
        /\ "email" \in DOMAIN req[s].body.body
        /\ req[s].body.body.email = "bad"
        /\ req[s].res.message = "Validation failed"
        /\ \E k \in 1..Len(req[s].res.errors) : req[s].res.errors[k].field = "email"

(* the number a query gives for a key, or the default when the key is absent *)
Given(query, key, default) ==
    IF key \in DOMAIN query THEN DigitsValue(Chars[query[key]]) ELSE default

(* C16: a List whose page is below 1 or whose limit is below 1 or above 100
   is answered 422 and does not reach the store; a List with a page of at
   least 1 and a limit from 1 to 100 is accepted; an omitted page is 1 and an
   omitted limit is 10; no List reaches the store with a limit above 100 *)
C16_ListBounds ==
    [][\A s \in Slots :
          /\ (Dispatched(s) /\ req[s].body.method = "GET" /\ req[s].body.path = <<>>)
             => LET query == req[s].body.query
                    numeric == \A k \in (DOMAIN query) \cap {"page", "limit"} :
                                  IsDigits(Chars[query[k]])
                    inRange == /\ Given(query, "page", 1) >= 1
                               /\ Given(query, "limit", 10) >= 1
                               /\ Given(query, "limit", 10) <= 100 IN
                /\ (numeric /\ ~ inRange) => Refused(s, "Query validation failed")
                /\ (numeric /\ inRange /\ DOMAIN query \subseteq {"page", "limit"})
                   => /\ req'[s].op = "getUsers"
                      /\ req'[s].pc = "findAndCountAll"
                      /\ req'[s].body.page = Given(query, "page", 1)
                      /\ req'[s].body.limit = Given(query, "limit", 10)
          /\ (req'[s].op = "getUsers" /\ req'[s].pc = "findAndCountAll")
             => req'[s].body.page >= 1 /\ req'[s].body.limit \in 1..100]_vars

C16_Witness ==
    \E s \in Slots :
        /\ Answered(s, "http", 422)
        /\ req[s].res.message = "Query validation failed"
        /\ req[s].body.method = "GET"
        /\ DOMAIN req[s].body.query = {"page", "limit"}
        /\ req[s].body.query.page = "1"
        /\ req[s].body.query.limit = "101"
        /\ Len(users) = 2

(* the rows a List is about: not deleted, of the role asked for, and selected
   by the search when there is one *)
Filtered(query) ==
    {i \in 1..Len(users) :
        /\ ~ users[i].is_deleted
        /\ query.role # <<>> => users[i].role = query.role[1]
        /\ query.search # <<>> => SearchMatches(users[i], query.search[1])}

(* the column a List is sorted by *)
SortColumn(query) == IF query.sortBy = "updatedAt" THEN "updated_at" ELSE "created_at"

(* row j comes before row i in the order the List asks for *)
Before(j, i, query) ==
    IF query.sortOrder = "asc"
    THEN users[j][SortColumn(query)] < users[i][SortColumn(query)]
    ELSE users[j][SortColumn(query)] > users[i][SortColumn(query)]

(* the position of row i in the filtered, sorted sequence, from 0 *)
Position(i, query) == Cardinality({j \in Filtered(query) : Before(j, i, query)})

(* C17: a List returns exactly the users at the positions (page - 1) * limit
   to page * limit - 1 of the filtered, sorted sequence of the users that are
   not deleted: at most limit items, none when (page - 1) * limit >= total;
   meta.pagination carries the page and the limit asked for *)
C17_ListIsThePage ==
    [][\A s \in Slots :
          Ran(s, "getUsers", "findAndCountAll")
          => LET query == req[s].body
                 offset == (query.page - 1) * query.limit
                 res == req'[s].res
                 onPage == {i \in Filtered(query) :
                               /\ Position(i, query) >= offset
                               /\ Position(i, query) <= query.page * query.limit - 1} IN
             /\ res.status = 200 /\ res.kind = "list"
             /\ Len(res.data) = Cardinality(onPage)
             /\ Len(res.data) <= query.limit
             /\ offset >= Cardinality(Filtered(query)) => res.data = <<>>
             /\ \A k \in 1..Len(res.data) :
                   /\ res.data[k].id \in onPage
                   /\ Position(res.data[k].id, query) = offset + k - 1
                   /\ res.data[k] = Exclude(users[res.data[k].id], {"password"})
             /\ res.meta.pagination.page = query.page
             /\ res.meta.pagination.limit = query.limit]_vars

C17_Witness ==
    \E s \in Slots :
        /\ Answered(s, "getUsers", 200)
        /\ req[s].res.meta.pagination.page = 2
        /\ req[s].res.meta.pagination.limit = 1
        /\ Len(req[s].res.data) = 1
        /\ Len(users) = 2
        /\ \A i \in 1..2 : ~ users[i].is_deleted
        /\ req[s].res.data[1].id = 1
        /\ req[s].res.meta.filters.sortOrder = "desc"

(* C18: meta.pagination.total is the number of all the users that are not
   deleted and match the filters, pages is the least number of pages of limit
   items that hold them, hasNext is page < pages and hasPrev is page > 1; with
   no matching user pages is 0 and hasNext is false *)
C18_PaginationMeta ==
    [][\A s \in Slots :
          Ran(s, "getUsers", "findAndCountAll")
          => LET query == req[s].body
                 p == req'[s].res.meta.pagination IN
             /\ p.total = Cardinality(Filtered(query))
             /\ p.pages * query.limit >= p.total
             /\ p.pages >= 0
             /\ p.pages > 0 => (p.pages - 1) * query.limit < p.total
             /\ p.hasNext = (query.page < p.pages)
             /\ p.hasPrev = (query.page > 1)
             /\ p.total = 0 => p.pages = 0 /\ p.hasNext = FALSE]_vars

C18_Witness ==
    \E s \in Slots :
        /\ Answered(s, "getUsers", 200)
        /\ req[s].res.meta.pagination.total = 2
        /\ req[s].res.meta.pagination.limit = 1
        /\ req[s].res.meta.pagination.page = 1
        /\ req[s].res.meta.pagination.pages = 2
        /\ req[s].res.meta.pagination.hasNext
        /\ ~ req[s].res.meta.pagination.hasPrev
        /\ Len(req[s].res.data) = 1 /\ req[s].res.data[1].id = 2

(* the text has the term in it, the case of the letters ignored *)
Contains(text, term) ==
    \E start \in 1..(Len(text) - Len(term) + 1) :
        \A k \in 1..Len(term) :
            LowerChar(text[start + k - 1]) = LowerChar(term[k])

(* the row passes the filters of the query *)
Satisfies(row, query) ==
    /\ query.role # <<>> => row.role = query.role[1]
    /\ query.search # <<>>
       => \/ Contains(Chars[row.name], Chars[query.search[1]])
          \/ Contains(Chars[row.email], Chars[query.search[1]])

(* C19: every user a List returns passes all the filters given (the role is
   the one asked for; the name or the email contains the search term, case
   ignored); every user that is not deleted and passes them is counted in
   total; meta.filters echoes search and role (null when absent) and the
   sortBy and sortOrder in effect *)
C19_ListFilters ==
    [][\A s \in Slots :
          Ran(s, "getUsers", "findAndCountAll")
          => LET query == req[s].body
                 res == req'[s].res IN
             /\ \A k \in 1..Len(res.data) : Satisfies(res.data[k], query)
             /\ res.meta.pagination.total =
                   Cardinality({i \in 1..Len(users) :
                                   ~ users[i].is_deleted /\ Satisfies(users[i], query)})
             /\ res.meta.filters.search = query.search
             /\ res.meta.filters.role = query.role
             /\ res.meta.filters.sortBy = query.sortBy
             /\ res.meta.filters.sortOrder = query.sortOrder]_vars

(* C20: GET /users/error is taken by the diagnostic handler and answered
   with a 500 failure envelope; it is never taken by the /:id route, which
   would answer 422 *)
C20_ErrorRouteFirst ==
    [][\A s \in Slots :
          (/\ Dispatched(s)
           /\ req[s].body.method = "GET"
           /\ req[s].body.path = <<"error">>)
          => /\ req'[s].pc = "done"
             /\ req'[s].res.status = 500
             /\ req'[s].res.success = FALSE
             /\ req'[s].res.errors = <<>>
             /\ users' = users]_vars

C20_Witness ==
    \E s \in Slots :
        /\ Answered(s, "http", 500)
        /\ req[s].body.method = "GET"
        /\ req[s].body.path = <<"error">>
        /\ req[s].res.message = "This is a test error"
        /\ Len(users) >= 1

(* C21: every response is an envelope whose success is true exactly when
   the status is 2xx; every failure envelope has data = null; a success of
   Create has status 201 and every other success has status 200 *)
C21_EnvelopeShape ==
    \A s \in Slots :
        req[s].pc = "done"
        => LET r == req[s].res IN
           /\ r.success = (r.status >= 200 /\ r.status <= 299)
           /\ ~ r.success => r.kind = "null"
           /\ r.success => r.status = IF req[s].op = "createUser" THEN 201 ELSE 200

(* the step ends the request of task s with the status *)
Ends(s, status) ==
    req[s].pc \notin {"idle", "done"} /\ req'[s].pc = "done"
    /\ req'[s].res.status = status

(* C22: an error inside a request handler, a failed store call included, is
   answered with a 500 failure envelope for that request; the server goes on
   to take the next request; the failed request leaves the store as it was
   when the request began *)
C22_FailedRequestChangesNothing ==
    [][\A s \in Slots :
          Ends(s, 500)
          => /\ req'[s].res.success = FALSE
             /\ Free(s)'
             /\ users' = users
             /\ req[s].user # <<>>
                => Exclude(users'[req[s].id], {"password"})
                      = Exclude(req[s].user[1], {"password"})]_vars

(* C23: GET /health, /health/ready and /health/live are answered 200 with a
   success envelope in every state, whatever users the store holds, and the
   step reads and writes nothing of the store *)
C23_HealthAlways200 ==
    [][\A s \in Slots :
          (req[s].op = "health" /\ req[s].pc = "arrived")
          => /\ ENABLED ServeHealth(s)
             /\ req'[s] # req[s]
                => /\ req'[s].pc = "done"
                   /\ req'[s].res.status = 200
                   /\ req'[s].res.success = TRUE
                   /\ req'[s].res.kind = "health"
                   /\ users' = users /\ now' = now]_vars

C23_Witness ==
    \E s \in Slots :
        /\ Answered(s, "health", 200)
        /\ req[s].body.path = <<"ready">>
        /\ req[s].res.message = "Service is ready"
        /\ Len(users) = 2
        /\ \E i \in 1..2 : users[i].is_deleted

(* C24: of two concurrent Deletes of the same user that is neither deleted
   nor an admin, at most one is answered 200 *)
C24_OneDeleteWins ==
    \A s, t \in Slots :
        (/\ s # t
         /\ Answered(s, "deleteUser", 200)
         /\ Answered(t, "deleteUser", 200))
        => req[s].id # req[t].id

(* C25: an Update that runs together with a Delete of the same user never
   writes to a row whose deletion flag is set, and is answered 404 when the
   Delete has written first; it never returns a soft-deleted record with 200 *)
C25_UpdateAfterDeleteIs404 ==
    [][\A s \in Slots :
          /\ (Ran(s, "updateUser", "update") /\ users[req[s].id].is_deleted)
             => /\ users' = users
                /\ req'[s].pc = "done"
                /\ req'[s].res.status = 404
          /\ (Ran(s, "updateUser", "findByPk") /\ req'[s].res.kind = "user")
             => ~ req'[s].res.data.is_deleted]_vars

(* C26: no stored user is an admin with the deletion flag set, and the role
   of a stored user never changes: Update takes no role and Delete refuses
   admins *)
C26_NoDeletedAdmin ==
    [][/\ \A i \in 1..Len(users) : users'[i].role = users[i].role
       /\ \A i \in 1..Len(users') :
             ~ (users'[i].role = "admin" /\ users'[i].is_deleted)]_vars

C26_Witness ==
    \E s \in Slots :
        /\ Answered(s, "updateUser", 200)
        /\ Len(users) = 2
        /\ users[1].role = "user" /\ users[1].name = "Bob"
        /\ users[2].role = "admin" /\ ~ users[2].is_deleted
        /\ req[s].id = 1

(* the request is a Get or a List *)
IsRead(request) ==
    /\ request.method = "GET"
    /\ request.path # <<"error">>

(* C27: Get and List never modify the store: whatever the outcome of the
   request (200, 404, 422, 500), every step of it leaves the stored users as
   they were; the same Get or List run again right after it, with no write
   in between, returns the same data *)
C27_ReadsChangeNothing ==
    [][\A s \in Slots :
          /\ (Dispatched(s) /\ IsRead(req[s].body))
             => users' = users /\ now' = now
          /\ (/\ req[s].op \in {"getUser", "getUsers"}
              /\ req[s].pc # "done" /\ req'[s] # req[s])
             => /\ users' = users /\ now' = now
                /\ req'[s].pc = "done"
                /\ req'[s].res.status \in {200, 404, 500}
                /\ (req[s].op = "getUsers" /\ req'[s].res.status = 200)
                   => \E query \in {req[s].body} :
                         req'[s].res.data = ListRows(query)'
                /\ (req[s].op = "getUser" /\ req'[s].res.status = 200)
                   => \E id \in {req[s].id} :
                         /\ GetFindUser(id)' # <<>>
                         /\ req'[s].res.data = GetAttributes(GetFindUser(id)[1])']_vars

C27_Witness ==
    \E s \in Slots :
        /\ Answered(s, "getUsers", 500)
        /\ req[s].res.message = "Failed to retrieve users"
        /\ Len(users) = 2
        /\ users[1].name = "Bob"

(* position of a layer on the app's stack, 0 when it is not registered *)
LayerAt(stack, layer) ==
    IF \E i \in 1..Len(stack) : stack[i] = layer
    THEN CHOOSE i \in 1..Len(stack) : stack[i] = layer
    ELSE 0

(* C28: start-up is ordered: the server listens only after the environment
   validation has passed and the database connection has succeeded, with the
   routes registered before the catch-all 404 handler and the error handler
   registered last; when the validation or the connection fails the process
   exits with code 1, has never listened and has served no request; an exited
   process takes no further step *)
C28_OrderedStartup ==
    [][/\ server.pc # "exited"
       /\ (server'.pc = "listening")
          => /\ server'.body.validated = "passed"
             /\ server'.body.connected = "connected"
             /\ LET stack == server'.body.stack IN
                  /\ 0 < LayerAt(stack, "routes")
                  /\ LayerAt(stack, "routes") < LayerAt(stack, "catchAll")
                  /\ LayerAt(stack, "catchAll") < LayerAt(stack, "errorHandler")
                  /\ LayerAt(stack, "errorHandler") = Len(stack)
       /\ (req'["r1"] # Idle) => (server.pc = "listening")
       /\ ("failed" \in {server'.body.validated, server'.body.connected})
          => /\ server'.pc = "exited"
             /\ server'.body.code = 1
             /\ req'["r1"] = Idle]_vars

C28_Witness ==
    /\ Listening
    /\ Len(server.body.stack) = 8
    /\ Answered("r1", "createUser", 201)

(* the send attempts of a log, in the order they were made *)
Attempts(log) == SelectSeq(log, LAMBDA entry : entry.event = "send")

(* C29: sendBulkEmails sends in input order, waits delayMs between every
   two consecutive send attempts whether the earlier one succeeded or
   failed, never gives up the batch on a failed send, and returns one entry
   per input email, in order, with index i and the outcome of the send *)
C29_BulkEmailsPaced ==
    LET call == req["r1"]
        log == call.body.log
        results == call.body.results
        attempts == Attempts(log)
    IN call.op = "sendBulkEmails" =>
         /\ \A k \in 1..Len(attempts) : attempts[k].index = k - 1
         /\ \A k \in 1..(Len(log) - 1) :
               ~ (log[k].event = "send" /\ log[k + 1].event = "send")
         /\ Len(results) = Len(attempts)
         /\ \A k \in 1..Len(results) :
               /\ results[k].index = k - 1
               /\ results[k].success = attempts[k].success
         /\ call.pc = "done" => Len(results) = Len(call.body.emails)

(* the argument is given and is a number *)
IsNumber(argument) == parseIntOrNaN(argument) # <<>>

NumberOf(argument) == parseIntOrNaN(argument)[1]

(* C30: validatePagination throws 'Page number must be greater than 0' for
   every page below 1, 0 included, and throws for every limit outside
   1..1000, 0 included; otherwise it returns the parsed integers, with 1 and
   10 standing in only for an argument that is absent or not a number *)
C30_PaginationBounds ==
    LET call == req["r1"]
        page == call.body.page
        limit == call.body.limit
        outcome == call.body.outcome
        pageBelow == IsNumber(page) /\ NumberOf(page) < 1
        limitOutside == IsNumber(limit) /\ (NumberOf(limit) < 1 \/ NumberOf(limit) > 1000)
    IN (call.op = "validatePagination" /\ call.pc \in {"returned", "threw"}) =>
         IF pageBelow
         THEN outcome.thrown = "Page number must be greater than 0"
         ELSE IF limitOutside
         THEN outcome.thrown # ""
         ELSE /\ outcome.thrown = ""
              /\ outcome.value.page = (IF IsNumber(page) THEN NumberOf(page) ELSE 1)
              /\ outcome.value.limit = (IF IsNumber(limit) THEN NumberOf(limit) ELSE 10)

====
